---- MODULE Spec2Model ----
(***************************************************************************)
(* The windowed OpenGL context of dioxus_native_graphics                   *)
(* (src/src/windowed_context.rs) driven by the event handler of the host   *)
(* application (src/src/main.rs).                                          *)
(*                                                                         *)
(* A native handle is "none" (never created), "live" or "released"         *)
(* (its owner was dropped).  Rust ownership decides when a handle is       *)
(* released: a local is dropped when from_tao_window returns, a field      *)
(* when the WindowedContext is dropped, fields in declaration order.       *)
(***************************************************************************)
EXTENDS Integers, Sequences, FiniteSets, TLC

\* ---------------------------------------------------------------- bounds
MaxDim == 2          \* window widths and heights range over 0..MaxDim
MaxQueue == 2        \* Resized events pending in the host event loop
MaxSamples == 8      \* SurfaceSettings.multisamples ranges over 0..MaxSamples
MaxConfigs == 2      \* configurations the display can enumerate
LogLen == 4          \* calls remembered in the call log

Dims == 0..MaxDim
Sizes == Dims \X Dims
SampleCounts == 0..MaxSamples
ConfigIds == 1..MaxConfigs

\* The enumerations find_configs can return: sequences of distinct ids.
ConfigLists ==
  {s \in UNION {[1..n -> ConfigIds] : n \in 0..MaxConfigs} :
     \A i, j \in 1..Len(s) : i # j => s[i] # s[j]}

\* ------------------------------------------------- pure helper functions

RECURSIVE count_ones(_)
count_ones(n) == IF n = 0 THEN 0 ELSE (n % 2) + count_ones(n \div 2)

\* u8::is_power_of_two: exactly one bit set.
is_power_of_two(n) == count_ones(n) = 1

\* Faulty variant: no validation of the sample count at all.
SampleCountRejected_none(ms) == FALSE

\* The guard of the early return at the top of from_tao_window.
SampleCountRejected(ms) == ms > 0 /\ ~is_power_of_two(ms)

\* Faulty variant: the dimension is passed through unclamped.
max1_identity(x) == x

\* u32::max(1)
max1(x) == IF x >= 1 THEN x ELSE 1

\* settings.vsync -> SwapInterval
SwapIntervalOf(vsync) == IF vsync THEN "Wait1" ELSE "DontWait"

VARIABLES
  winSize,   \* the window's physical inner size <<width, height>>
  queue,     \* Resized events the event loop has not yet delivered
  app,       \* "start", "running", "panicked" (an unwrap failed) or "closed"
  ctor,      \* the inputs of the last from_tao_window call (history)
  made,      \* what from_tao_window returned: result, native calls, drops
  gl,        \* the native handles, the surface size and the current context
  releases,  \* the handles released so far, in release order (history)
  calls,     \* the last LogLen calls the event handler made on the context
  last       \* the most recent call on the context and what it saw (history)

vars == <<winSize, queue, app, ctor, made, gl, releases, calls, last>>

\* ------------------------------------------------------- native handles

\* Before construction: no handle exists, nothing is current.
NoGl ==
  [display |-> "none", glutin_context |-> "none", surface |-> "none",
   context |-> "none", size |-> <<0, 0>>, swap_interval |-> "unset",
   current |-> {}]

RECURSIVE Release(_, _)
\* Dropping the owners of `handles`, in order; a dropped rendering context
\* is no longer a context that is current on the thread.
Release(g, handles) ==
  IF handles = <<>> THEN g
  ELSE LET h == Head(handles)
           g1 == [g EXCEPT ![h] = "released"]
           g2 == IF h = "glutin_context"
                 THEN [g1 EXCEPT !.current = g.current \ {"ctx"}] ELSE g1
       IN Release(g2, Tail(handles))

\* Faulty variant: make_current that leaves the thread's current context alone.
make_current_noop(g) == g

\* Native make-current: this context replaces whatever was current.
make_current(g) == [g EXCEPT !.current = {"ctx"}]

\* Faulty variant: the resize also resets the surface's swap interval.
resize_resets(g, size) ==
  [g EXCEPT !.size = <<max1(size[1]), max1(size[2])>>,
            !.swap_interval = "DontWait"]

\* WindowedContext::resize: clamp each dimension, resize the surface.
resize(g, size) == [g EXCEPT !.size = <<max1(size[1]), max1(size[2])>>]

\* ------------------------------------------------------- construction

\* The native calls of from_tao_window, in program order.
StepOrder ==
  <<"Display::new", "find_configs", "create_context",
    "create_window_surface", "make_current", "set_swap_interval",
    "from_gl_context">>

StepIndex(step) == CHOOSE i \in 1..Len(StepOrder) : StepOrder[i] = step

\* The native calls made up to and including `step`.
OpsUpTo(step) == SubSeq(StepOrder, 1, StepIndex(step))

\* The outcome of a native call: the environment decides which one fails.
Native(step, env) == IF env.fail = step THEN "Err" ELSE "Ok"

\* Faulty variant: a failure to set the swap interval is ignored.
SwapIntervalOutcome_swallowed(env) == "Ok"

\* gl_surface.set_swap_interval(&gl_context, swap_interval)?
SwapIntervalOutcome(env) == Native("set_swap_interval", env)

\* Faulty variant: an empty enumeration reported as a wrapped native error, and
\* the last configuration taken instead of the first.
find_first_config_last(configs) ==
  IF configs = <<>> THEN [err |-> "GlutinError", config |-> 0]
  ELSE [err |-> "none", config |-> configs[Len(configs)]]

\* find_configs(..)?.next().ok_or(WindowError::SurfaceCreationError)?
find_first_config(configs) ==
  IF configs = <<>> THEN [err |-> "SurfaceCreationError", config |-> 0]
  ELSE [err |-> "none", config |-> Head(configs)]

\* Faulty variant: the surface is leaked when a late step fails.
DroppedAt_leak(step) ==
  CASE step = "Display::new"          -> <<>>
    [] step = "find_configs"          -> <<"display">>
    [] step = "create_context"        -> <<"display">>
    [] step = "create_window_surface" -> <<"glutin_context", "display">>
    [] step = "make_current"          -> <<"glutin_context", "display">>
    [] step = "set_swap_interval"     -> <<"glutin_context", "display">>
    [] step = "from_gl_context"       -> <<"glutin_context", "display">>
    [] step = "return"                -> <<"display">>

\* The locals that own a native handle when from_tao_window returns at
\* `step`, in the order Rust drops them (reverse declaration order; the
\* context is consumed by a failing make_current).  At "return" the
\* context and the surface have moved into Self and only gl_display is
\* left to drop.
DroppedAt(step) ==
  CASE step = "Display::new"          -> <<>>
    [] step = "find_configs"          -> <<"display">>
    [] step = "create_context"        -> <<"display">>
    [] step = "create_window_surface" -> <<"glutin_context", "display">>
    [] step = "make_current"          -> <<"glutin_context", "surface", "display">>
    [] step = "set_swap_interval"     -> <<"glutin_context", "surface", "display">>
    [] step = "from_gl_context"       -> <<"glutin_context", "surface", "display">>
    [] step = "return"                -> <<"display">>

\* An early return with error `kind` from the native call `step`.
Failure(kind, step, g) ==
  [result |-> kind, ops |-> OpsUpTo(step), dropped |-> DroppedAt(step),
   gl |-> Release(g, DroppedAt(step)), config |-> 0]

\* WindowedContext::from_tao_window(window, settings) on a window of
\* physical size `size`; env.fail names the native call that fails (or
\* "none"), env.configs is what the display enumerates for the template.
from_tao_window(size, settings, env) ==
  IF SampleCountRejected(settings.multisamples)
  THEN [result |-> "InvalidNumberOfMSAASamples", ops |-> <<>>,
        dropped |-> <<>>, gl |-> NoGl, config |-> 0]
  ELSE IF Native("Display::new", env) = "Err"
  THEN Failure("GlutinError", "Display::new", NoGl)
  ELSE
  LET g1 == [NoGl EXCEPT !.display = "live"]
      swap_interval == SwapIntervalOf(settings.vsync)
      found == find_first_config(env.configs)
  IN
  IF Native("find_configs", env) = "Err"
  THEN Failure("GlutinError", "find_configs", g1)
  ELSE IF found.err # "none"
  THEN Failure(found.err, "find_configs", g1)
  ELSE
  LET width == max1(size[1])
      height == max1(size[2])
      g2 == [g1 EXCEPT !.glutin_context = "live"]
      g3 == [g2 EXCEPT !.surface = "live", !.size = <<width, height>>]
      g4 == make_current(g3)
      g5 == [g4 EXCEPT !.swap_interval = swap_interval]
      g6 == [g5 EXCEPT !.context = "live"]
  IN
  IF Native("create_context", env) = "Err"
  THEN Failure("GlutinError", "create_context", g1)
  ELSE IF Native("create_window_surface", env) = "Err"
  THEN Failure("GlutinError", "create_window_surface", g2)
  ELSE IF Native("make_current", env) = "Err"
  THEN Failure("GlutinError", "make_current", g3)
  ELSE IF SwapIntervalOutcome(env) = "Err"
  THEN Failure("GlutinError", "set_swap_interval", g4)
  ELSE IF Native("from_gl_context", env) = "Err"
  THEN Failure("ThreeDError", "from_gl_context", g5)
  ELSE [result |-> "Ok", ops |-> StepOrder, dropped |-> DroppedAt("return"),
        gl |-> Release(g6, DroppedAt("return")), config |-> found.config]

\* ------------------------------------------------------------ inputs

SettingsSet == [multisamples : SampleCounts, vsync : BOOLEAN]

Envs == [fail : {StepOrder[i] : i \in 1..Len(StepOrder)} \cup {"none"},
         configs : ConfigLists]

\* SurfaceSettings::default(), what app() passes: 4 samples, vsync on.
DefaultSettings == [multisamples |-> 4, vsync |-> TRUE]

\* ------------------------------------------------------------- actions

Init ==
  /\ winSize \in Sizes
  /\ queue = <<>>
  /\ app = "start"
  /\ ctor = [called |-> FALSE]
  /\ made = [result |-> "none", ops |-> <<>>, dropped |-> <<>>]
  /\ gl = NoGl
  /\ releases = <<>>
  /\ calls = <<>>
  /\ last = [op |-> "none"]

\* The rendering context of the aggregate is the thread's current one.
IsCurrent(g) == g.glutin_context = "live" /\ "ctx" \in g.current

\* Appending to the call log, which keeps the last LogLen calls.
Log(new) ==
  LET s == calls \o new
  IN IF Len(s) > LogLen THEN SubSeq(s, Len(s) - LogLen + 1, Len(s)) ELSE s

\* A call of from_tao_window on the window as it is now; a failure is
\* unwrapped by the caller, which panics.
Construct(r) ==
  /\ made' = [result |-> r.result, ops |-> r.ops, dropped |-> r.dropped]
  /\ gl' = r.gl
  /\ releases' = r.dropped
  /\ app' = IF r.result = "Ok" THEN "running" ELSE "panicked"
  /\ last' = [op |-> "from_tao_window", size |-> winSize]
  /\ UNCHANGED <<winSize, queue, calls>>

\* app(): the use_signal initialiser builds the context with the default
\* settings and unwraps; the event handler is registered in the same call.
AppStart ==
  /\ app = "start"
  /\ \E env \in Envs : Construct(from_tao_window(winSize, DefaultSettings, env))
  /\ UNCHANGED ctor

\* from_tao_window called with any settings (the public constructor).
Create ==
  /\ app = "start"
  /\ \E settings \in SettingsSet, env \in Envs :
       LET r == from_tao_window(winSize, settings, env)
       IN /\ Construct(r)
          /\ ctor' = [called |-> TRUE, settings |-> settings, env |-> env,
                      config |-> r.config]

\* The window takes the physical size s and the event loop queues the
\* Resized(s) event that reports it.
WindowResized ==
  /\ app \in {"start", "running"}
  /\ Len(queue) < MaxQueue
  /\ \E s \in Sizes :
       /\ winSize' = s
       /\ queue' = Append(queue, s)
  /\ UNCHANGED <<app, ctor, made, gl, releases, calls, last>>

\* Faulty variant: the Resized event is consumed without resizing the surface.
OnResized_dropped ==
  /\ app = "running"
  /\ queue # <<>>
  /\ queue' = Tail(queue)
  /\ calls' = Log(<<"resize">>)
  /\ last' = [op |-> "resize", size |-> Head(queue),
              again |-> (last.op = "resize" /\ last.size = Head(queue)),
              current |-> IsCurrent(gl)]
  /\ UNCHANGED <<winSize, app, ctor, made, gl, releases>>

\* The handler's WindowEvent::Resized(size) arm: context.resize(*size).
OnResized ==
  /\ app = "running"
  /\ queue # <<>>
  /\ gl' = resize(gl, Head(queue))
  /\ queue' = Tail(queue)
  /\ calls' = Log(<<"resize">>)
  /\ last' = [op |-> "resize", size |-> Head(queue),
              again |-> (last.op = "resize" /\ last.size = Head(queue)),
              current |-> IsCurrent(gl)]
  /\ UNCHANGED <<winSize, app, ctor, made, releases>>

\* Faulty variant: the buffers are swapped before the frame is drawn.
FrameCalls_swap_first == <<"swap", "clear", "render">>

\* The calls of one frame, in program order.
FrameCalls == <<"clear", "render", "swap">>

\* The handler's MainEventsCleared arm, which the event loop runs once the
\* queued events have been delivered: the viewport is the window's inner
\* size, the frame is cleared and rendered, the buffers are swapped and
\* the result unwrapped.
OnMainEventsCleared ==
  /\ app = "running"
  /\ queue = <<>>
  /\ \E swap \in {"Ok", "Err"} :
       LET viewport == winSize
       IN /\ last' = [op |-> "frame", viewport |-> viewport,
                      window |-> winSize, surface |-> gl.size,
                      swap |-> swap, current |-> IsCurrent(gl)]
          /\ app' = IF swap = "Ok" THEN "running" ELSE "panicked"
  /\ calls' = Log(FrameCalls)
  /\ UNCHANGED <<winSize, queue, ctor, made, gl, releases>>

\* WindowedContext::_make_current: Ok when the native call succeeds.
MakeCurrent ==
  /\ app = "running"
  /\ \E native \in {"Ok", "Err"} :
       /\ gl' = IF native = "Ok" THEN make_current(gl) ELSE gl
       /\ last' = [op |-> "make_current", native |-> native,
                   result |-> IF native = "Ok" THEN "Ok" ELSE "GlutinError"]
  /\ UNCHANGED <<winSize, queue, app, ctor, made, releases, calls>>

\* WindowedContext::_set_vsync(enabled)
SetVsync ==
  /\ app = "running"
  /\ \E enabled \in BOOLEAN, native \in {"Ok", "Err"} :
       /\ gl' = IF native = "Ok"
                THEN [gl EXCEPT !.swap_interval = SwapIntervalOf(enabled)]
                ELSE gl
       /\ last' = [op |-> "set_vsync", native |-> native,
                   result |-> IF native = "Ok" THEN "Ok" ELSE "GlutinError"]
  /\ UNCHANGED <<winSize, queue, app, ctor, made, releases, calls>>

\* Faulty variant: the rendering context is dropped before the surface.
FieldOrder_context_first == <<"context", "glutin_context", "surface">>

\* The fields of WindowedContext that own a native handle, in declaration
\* order, which is the order in which they are dropped.
FieldOrder == <<"context", "surface", "glutin_context">>

\* The WindowedContext is dropped.
DropContext ==
  /\ app = "running"
  /\ gl' = Release(gl, FieldOrder)
  /\ releases' = releases \o FieldOrder
  /\ app' = "closed"
  /\ last' = [op |-> "drop"]
  /\ UNCHANGED <<winSize, queue, ctor, made, calls>>

\* The application: app() and its event handler.
Next ==
  \/ AppStart
  \/ WindowResized
  \/ OnResized
  \/ OnMainEventsCleared
  \/ DropContext

Spec == Init /\ [][Next]_vars

\* The constructor and the methods of WindowedContext, under any caller.
NextCreate ==
  \/ Create
  \/ MakeCurrent
  \/ SetVsync
  \/ DropContext

SpecCreate == Init /\ [][NextCreate]_vars

\* ------------------------------------------------------------- claims

\* Definitions the properties are stated with, independent of the model's.
IsPowerOfTwo(n) == \E k \in 0..7 : n = 2^k

AtLeast1(x) == IF x = 0 THEN 1 ELSE x

Clamped(size) == <<AtLeast1(size[1]), AtLeast1(size[2])>>

Handles == {"display", "glutin_context", "surface", "context"}

\* The native call that creates each handle.
CreatedBy(h) ==
  CASE h = "display"        -> "Display::new"
    [] h = "glutin_context" -> "create_context"
    [] h = "surface"        -> "create_window_surface"
    [] h = "context"        -> "from_gl_context"

\* Position of a handle in the release order (0: not released).
ReleasePos(h) ==
  IF \E i \in 1..Len(releases) : releases[i] = h
  THEN CHOOSE i \in 1..Len(releases) : releases[i] = h
  ELSE 0

\* from_tao_window was called and got as far as the native call `step`.
Reached(step) ==
  /\ ctor.called
  /\ Len(made.ops) >= StepIndex(step)

\* C1: a sample count that is nonzero and not a power of two makes
\* from_tao_window fail with the invalid-sample-count error before any
\* native call is made and with no handle created or released; a sample
\* count of 0 or a power of two never fails this check.
C1_InvalidSamplesRejectedFirst ==
  ctor.called =>
    LET ms == ctor.settings.multisamples
    IN /\ (ms # 0 /\ ~IsPowerOfTwo(ms)) =>
            /\ made.result = "InvalidNumberOfMSAASamples"
            /\ made.ops = <<>>
            /\ gl = NoGl
            /\ releases = <<>>
       /\ (ms = 0 \/ IsPowerOfTwo(ms)) =>
            made.result # "InvalidNumberOfMSAASamples"

C1_Witness ==
  /\ ctor.called
  /\ ctor.settings.multisamples = 3
  /\ made.result = "InvalidNumberOfMSAASamples"

\* C2: while the surface exists its width and height are at least 1, and
\* construction from a window of size (w, h) and resize(w, h) give the
\* surface exactly (max(1, w), max(1, h)).
C2_SurfaceAtLeastOne ==
  gl.surface = "live" =>
    /\ gl.size[1] >= 1
    /\ gl.size[2] >= 1
    /\ last.op \in {"from_tao_window", "resize"} => gl.size = Clamped(last.size)

C2_Witness ==
  /\ last.op = "resize"
  /\ last.size = <<0, 0>>
  /\ gl.surface = "live"
  /\ gl.size = <<1, 1>>

C5_ViewportIsSurfaceSize ==
  last.op = "frame" =>
    /\ last.surface = Clamped(last.window)
    /\ last.viewport = last.surface

\* C5 as amended: at every swap_buffers the surface size is the clamped
\* physical size of the window; the viewport the frame was rendered with
\* is the window's size unclamped, which is the surface size exactly when
\* neither dimension of the window is 0.
C5_SurfaceTracksWindow ==
  last.op = "frame" =>
    /\ last.surface = Clamped(last.window)
    /\ last.viewport = last.window
    /\ (last.viewport = last.surface) <=>
         (last.window[1] # 0 /\ last.window[2] # 0)

C5_Witness ==
  /\ last.op = "frame"
  /\ last.window = <<0, 2>>
  /\ last.surface = <<1, 2>>
  /\ \E i \in 1..Len(calls) : calls[i] = "resize"

\* C6: each frame's swap_buffers is called once, right after that frame's
\* clear and render, and a resize comes only between frames.
C6_SwapEndsEachFrame ==
  \A i \in 1..Len(calls) :
    /\ (calls[i] = "swap" /\ i > 1) => calls[i - 1] = "render"
    /\ (calls[i] = "render" /\ i > 1) => calls[i - 1] = "clear"
    /\ calls[i] = "clear" =>
         i + 2 <= Len(calls) /\ calls[i + 1] = "render" /\ calls[i + 2] = "swap"
    /\ calls[i] = "render" => i + 1 <= Len(calls) /\ calls[i + 1] = "swap"
    /\ (calls[i] = "resize" /\ i > 1) => calls[i - 1] \in {"swap", "resize"}

C6_Witness ==
  /\ Len(calls) >= 4
  /\ SubSeq(calls, Len(calls) - 3, Len(calls)) = <<"resize", "clear", "render", "swap">>
  /\ last.op = "frame"

\* C7: when the display enumerates no configuration for the template,
\* from_tao_window fails with the no-configuration error kind
\* (WindowError::SurfaceCreationError), which is not the kind a failing
\* native surface creation gives; otherwise the first enumerated
\* configuration is the one used.
C7_NoConfigurationError ==
  (Reached("find_configs") /\ ctor.env.fail # "find_configs") =>
    /\ ctor.env.configs = <<>> =>
         made.result = "SurfaceCreationError" /\ Len(made.ops) = StepIndex("find_configs")
    /\ ctor.env.configs # <<>> =>
         /\ made.result # "SurfaceCreationError"
         /\ made.result = "Ok" => ctor.config = ctor.env.configs[1]
    /\ (Reached("create_window_surface") /\ ctor.env.fail = "create_window_surface") =>
         made.result = "GlutinError"

C7_Witness ==
  /\ Reached("find_configs")
  /\ ctor.env.fail = "none"
  /\ ctor.env.configs = <<>>
  /\ made.result = "SurfaceCreationError"

\* C8 as claimed: a native failure to set the swap interval during
\* construction is not propagated; construction still returns the
\* aggregate.
C8_SwapIntervalFailureIgnored ==
  (Reached("set_swap_interval") /\ ctor.env.fail = "set_swap_interval") =>
    made.result = "Ok"

\* C8 as amended: a native failure to set the swap interval during
\* construction is propagated like every other step's: from_tao_window
\* returns the error, no aggregate, and leaves no handle live; _set_vsync
\* after construction reports a failure too, and exactly then.
C8_SwapIntervalFailurePropagated ==
  /\ (Reached("set_swap_interval") /\ ctor.env.fail = "set_swap_interval") =>
       /\ made.result = "GlutinError"
       /\ app = "panicked"
       /\ \A h \in Handles : gl[h] # "live"
  /\ last.op = "set_vsync" =>
       (last.result = "GlutinError" <=> last.native = "Err")

C8_Witness ==
  /\ Reached("set_swap_interval")
  /\ ctor.env.fail = "set_swap_interval"
  /\ made.result = "GlutinError"
  /\ Len(made.ops) = StepIndex("set_swap_interval")

\* C9: a resize(w, h) changes the surface size to (max(1, w), max(1, h))
\* and nothing else, resizing again with the same size changes nothing,
\* and a resize that follows a resize to the same size leaves the state
\* as it was.
C9_ResizeIdempotent ==
  [][(app = "running" /\ queue # <<>> /\ queue' = Tail(queue)) =>
       LET s == Head(queue)
       IN /\ gl' = [gl EXCEPT !.size = Clamped(s)]
          /\ resize(gl', s) = gl'
          /\ (last.op = "resize" /\ last.size = s) => gl' = gl]_vars

C9_Witness ==
  /\ last.op = "resize"
  /\ last.again
  /\ last.size = <<0, 2>>
  /\ gl.size = <<1, 2>>

====
